---- MODULE Spec2Model ----
(***************************************************************************)
(* A model of scripts/query-pypi.py (the PyPI crawler that caches the      *)
(* metadata of Salt extensions) and of the cache reader of                 *)
(* scripts/refresh-metadata.py.                                            *)
(*                                                                         *)
(* Persistent state is the files the scripts keep between runs: the index  *)
(* cache pypi-index.msgpack, the per-package cache files, and the state    *)
(* files.  A run of query-pypi.py is main(): get_index_info loads the      *)
(* index cache, download_pypi_simple_index fetches and merges the index,   *)
(* collect_packages_information starts one download_package_info task per  *)
(* package in a trio nursery, and get_index_info's finally-block saves the *)
(* index cache.  The tasks are interleaved at their only checkpoint, the   *)
(* await of session.get.  PyPI is the environment: its answers are         *)
(* arbitrary, but a 304 answers a conditional request only and the ETag of *)
(* the simple index identifies the listing it was sent with.               *)
(***************************************************************************)
EXTENDS Naturals, FiniteSets, Sequences, TLC

(***************************************************************************)
(* Bounds of the model.                                                    *)
(***************************************************************************)
\* number of successive runs of query-pypi.py that are explored
MaxRuns == 2
\* number of names at the end of the downloaded index that may still be in the
\* write buffer of the temporary file when the file is read back
MaxUnflushed == 1

(***************************************************************************)
(* Values.                                                                 *)
(***************************************************************************)
\* A package name is the pair <<head, rest>> of the string head + rest, so
\* that str.startswith is a test of the head.
Names == { <<"saltext-", "a">>, <<"", "foo">> }

\* PACKAGE_NAME_PREFIXES = ("salt-ext-", "saltext-", "saltext.")
PACKAGE_NAME_PREFIXES == { "salt-ext-", "saltext-", "saltext." }

\* The names in the order in which https://pypi.org/simple/ lists them.
IndexOrder == << <<"", "foo">>, <<"saltext-", "a">> >>

\* package.startswith(PACKAGE_NAME_PREFIXES)
startswith(package, prefixes) == package[1] \in prefixes

\* The include list and the exclude list (data/*.yaml) that are explored, as
\* pairs <<KNOWN_SALT_EXTENSIONS, KNOWN_NOT_SALT_EXTENSIONS>>: no list names a
\* package; one package is included and the other, which carries a prefix, is
\* excluded; one package is in both lists.
Lists ==
    { << {}, {} >>,
      << { <<"", "foo">> }, { <<"saltext-", "a">> } >>,
      << { <<"", "foo">> }, { <<"", "foo">> } >> }

\* concurrency = 1500, the total of trio.CapacityLimiter.  The model scales
\* the capacity down to 1 so that an index of two packages is larger than the
\* capacity, the way PyPI's index is larger than 1500.
concurrency == 1

\* options.no_progress: the progress bar is enabled (the default outside CI).
no_progress == FALSE

\* An ETag is a one-element tuple, no ETag (None, or no such key) is <<>>.
NoEtag == << >>
\* ETags a per-package answer may carry.
PackageEtags == { <<"e1">> }
\* PyPI's ETag of the simple index identifies the listing it was computed from.
IndexEtagOf(listing) == << listing >>

\* The sha256 sums the script may have; "none" is a missing sha256sum key.
ScriptHashes == { "s1", "s2" }

\* The body of an answer of https://pypi.org/pypi/<package>/json, and the
\* content of a per-package cache file:
\*   kind "nofile"  no such cache file
\*   kind "notjson" req.json() raises
\*   kind "empty"   falsy JSON ({}, [], null)
\*   kind "noinfo"  JSON in which data["info"]["keywords"] raises
\*   kind "info"    JSON with info.keywords (<<>> is null or "") and with
\*                  `releases` releases that have a non-yanked file
Body(kind, keywords, releases) ==
    [kind |-> kind, keywords |-> keywords, releases |-> releases]
NoFile == Body("nofile", <<>>, 0)
NotJson == Body("notjson", <<>>, 0)
EmptyJson == Body("empty", <<>>, 0)
NoInfoJson == Body("noinfo", <<>>, 0)
InfoJsons ==
    { Body("info", <<"salt", "salt-extension">>, 1),
      Body("info", <<"python">>, 0) }
Bodies == { NotJson, EmptyJson, NoInfoJson } \cup InfoJsons

\* "salt-extension" in data["info"]["keywords"]
Contains(keywords, word) == \E i \in 1..Len(keywords) : keywords[i] = word

\* Status codes of a per-package answer; 500 stands for every other status.
Statuses == { 200, 304, 404, 500 }

\* A record of index_info["packages"]: {} is EmptyRecord.
EmptyRecord == [etag |-> NoEtag, notfound |-> FALSE]

\* index_info = {"packages": {}} of a first run.
EmptyIndexInfo == [etag |-> NoEtag, sha256sum |-> "none", packages |-> << >>]

\* The directories of the per-package cache under LOCAL_CACHE_PATH.
PACKAGE_INFO_CACHE == "packages-info"
REFRESH_PACKAGE_INFO_CACHE == "pypi-packages-info"
CacheDirs == { PACKAGE_INFO_CACHE, REFRESH_PACKAGE_INFO_CACHE }

VARIABLES
    \* ---- the environment
    KNOWN_SALT_EXTENSIONS,      \* data/include-pypi-packages.yaml
    KNOWN_NOT_SALT_EXTENSIONS,  \* data/exclude-pypi-packages.yaml
    \* ---- files
    indexFile,                  \* LOCAL_CACHE_PATH/pypi-index.msgpack
    fs,                         \* fs[dir][name]: LOCAL_CACHE_PATH/<dir>/<name>.msgpack
    stateEtag,                  \* STATE_DIR/pypi-index-etag
    stateHash,                  \* STATE_DIR/known-extensions-hash
    \* ---- a run of query-pypi.py
    pc,                         \* where main() is: "idle" (no run), "loaded",
                                \* "index", "collect", "save"
    runs,                       \* runs completed
    fast,                       \* options.fast
    invalidated,                \* get_index_info dropped the packages' etags
    index_info,                 \* the dict get_index_info yields
    borrowed,                   \* limiter.borrowed_tokens
    idxReq,                     \* If-None-Match of the index request
    remaining,                  \* packages the loop of the nursery has not reached
    task,                       \* task[name]: "none", "spawned", "waiting" (in
                                \* session.get), "done" (returned, raised or cancelled)
    started,                    \* started[name]: tasks started for it in this run
    req,                        \* req[name]: If-None-Match of its request in flight
    abort,                      \* "none", "timeout" (move_on_after), "exception"
    counter,                    \* progress.n
    lastResp,                   \* the answer the last step handled
    result,                     \* how the last run ended
    \* ---- refresh-metadata.py
    yielded                     \* names iterate_pypi_cache yielded last

vars == << KNOWN_SALT_EXTENSIONS, KNOWN_NOT_SALT_EXTENSIONS,
           indexFile, fs, stateEtag, stateHash, pc, runs, fast, invalidated,
           index_info, borrowed, idxReq, remaining, task, started, req, abort,
           counter, lastResp, result, yielded >>

\* What no step of query-pypi.py writes.
envVars == << KNOWN_SALT_EXTENSIONS, KNOWN_NOT_SALT_EXTENSIONS, yielded >>
\* The files other than the per-package cache.
fileVars == << indexFile, stateEtag, stateHash >>
\* What a run fixes when it starts.
optVars == << runs, fast, invalidated, result >>
\* The nursery.
taskVars == << remaining, task, started, req >>

\* lastResp: the answer the last step handled: of the simple index (pkg is
\* SimpleIndex) or of a package; status 0 with a package is a request that
\* raised; NoResp when the last step handled no answer.
NoResp == [pkg |-> << >>, status |-> 0, body |-> NoFile]
SimpleIndex == << "simple" >>

(***************************************************************************)
(* The state after construction: nothing cached, no run made.              *)
(***************************************************************************)
NoIndexFile == [exists |-> FALSE, info |-> EmptyIndexInfo]
NoTasks == [p \in Names |-> "none"]
NoStarts == [p \in Names |-> 0]
NoRequests == [p \in Names |-> NoEtag]
NoStateFile == [exists |-> FALSE, text |-> << >>]
NoHashFile == [exists |-> FALSE, value |-> << >>]

Init ==
    /\ \E lists \in Lists :
          /\ KNOWN_SALT_EXTENSIONS = lists[1]
          /\ KNOWN_NOT_SALT_EXTENSIONS = lists[2]
    /\ indexFile = NoIndexFile
    /\ fs = [d \in CacheDirs |-> [p \in Names |-> NoFile]]
    /\ stateEtag = NoStateFile
    /\ stateHash = NoHashFile
    /\ pc = "idle"
    /\ runs = 0
    /\ fast = FALSE
    /\ invalidated = FALSE
    /\ index_info = EmptyIndexInfo
    /\ borrowed = 0
    /\ idxReq = NoEtag
    /\ remaining = {}
    /\ task = NoTasks
    /\ started = NoStarts
    /\ req = NoRequests
    /\ abort = "none"
    /\ counter = 0
    /\ lastResp = NoResp
    /\ result = "none"
    /\ yielded = {}

(***************************************************************************)
(* get_index_info, up to its yield.                                        *)
(***************************************************************************)
\* get_sha256_command: returns the command when shutil.which found sha256sum or
\* shasum (`found`), and raises Exception("SHA256 command not found") otherwise.
get_sha256_command(found) == found

\* (mutant) the etags are kept
InvalidateNothing(info) == info

\* for data in index_info["packages"].values(): data.pop("etag", None)
InvalidateEtags(info) ==
    [info EXCEPT !.packages =
        [p \in DOMAIN info.packages |-> [info.packages[p] EXCEPT !.etag = NoEtag]]]

\* The sha256sum command failed (returncode # 0), or its sum is not the stored one.
ShaMismatch(file, sha, ok) == (~ok) \/ sha # file.info.sha256sum

LoadIndexInfo(file, sha, ok) ==
    IF file.exists
    THEN IF ShaMismatch(file, sha, ok) THEN InvalidateEtags(file.info) ELSE file.info
    ELSE EmptyIndexInfo

\* with get_index_info(progress, options) as index_info: the part before the yield,
\* of a run started with or without --fast while the script has sha256 `sha`
\* and the sha256sum command succeeds or not.
\* When the index cache exists and get_sha256_command finds no command, its
\* exception leaves get_index_info before the yield and the run is over.
GetIndexInfoLoad ==
    /\ pc = "idle"
    /\ runs < MaxRuns
    /\ \E found \in BOOLEAN :
          IF indexFile.exists /\ ~get_sha256_command(found)
          THEN /\ result' = "raised"
               /\ runs' = runs + 1
               /\ UNCHANGED << fast, index_info, invalidated, counter, pc >>
          ELSE /\ \E sha \in ScriptHashes, ok \in BOOLEAN, f \in BOOLEAN :
                     /\ fast' = f
                     /\ index_info' = LoadIndexInfo(indexFile, sha, ok)
                     /\ invalidated' =
                           (indexFile.exists /\ ShaMismatch(indexFile, sha, ok))
               /\ counter' = 1
               /\ pc' = "loaded"
               /\ result' = "none"
               /\ UNCHANGED runs
    /\ lastResp' = NoResp
    /\ UNCHANGED << envVars, fileVars, fs, borrowed, idxReq, taskVars, abort >>

(***************************************************************************)
(* download_pypi_simple_index.                                             *)
(***************************************************************************)
\* async with limiter; headers["If-None-Match"] = etag if etag; session.stream(...)
IndexRequest ==
    /\ pc = "loaded"
    /\ borrowed < concurrency
    /\ borrowed' = borrowed + 1
    /\ idxReq' = index_info.etag
    /\ pc' = "index"
    /\ lastResp' = NoResp
    /\ UNCHANGED << envVars, fileVars, fs, optVars, index_info, taskVars, abort,
                    counter >>

\* download_pypi_simple_index returns; main resets the progress bar and
\* collect_packages_information opens its nursery over `packages`.
ReturnToMain(packages) ==
    /\ borrowed' = borrowed - 1
    /\ counter' = IF no_progress THEN counter + 1 ELSE 0
    /\ remaining' = DOMAIN packages
    /\ pc' = "collect"

\* download_pypi_simple_index raises, or is cancelled by move_on_after: the
\* limiter is released, its finally-block updates the progress bar, and main
\* leaves the with-block of get_index_info.
LeaveMain(why) ==
    /\ borrowed' = borrowed - 1
    /\ counter' = counter + 1
    /\ abort' = why
    /\ pc' = "save"

\* if response.status_code == 304: return.  PyPI answers 304 only to a
\* conditional request, when If-None-Match is the ETag of its current index.
IndexNotModified ==
    /\ pc = "index"
    /\ idxReq # NoEtag
    /\ lastResp' = [NoResp EXCEPT !.pkg = SimpleIndex, !.status = 304]
    /\ ReturnToMain(index_info.packages)
    /\ UNCHANGED << envVars, fileVars, fs, optVars, index_info, idxReq, task,
                    started, req, abort >>

\* (mutant) a failed fetch of the index forgets the stored etag
IndexFailedDropsEtag ==
    /\ pc = "index"
    /\ lastResp' = [NoResp EXCEPT !.pkg = SimpleIndex, !.status = 500]
    /\ ReturnToMain(index_info.packages)
    /\ index_info' = [index_info EXCEPT !.etag = NoEtag]
    /\ UNCHANGED << envVars, fileVars, fs, optVars, idxReq, task, started, req,
                    abort >>

\* if response.status_code != 200: return
IndexFailed ==
    /\ pc = "index"
    /\ lastResp' = [NoResp EXCEPT !.pkg = SimpleIndex, !.status = 500]
    /\ ReturnToMain(index_info.packages)
    /\ UNCHANGED << envVars, fileVars, fs, optVars, index_info, idxReq, task,
                    started, req, abort >>

\* old_packages after the loop over tree.xpath("//a/text()")
OldPackages(package_list, listing) == (DOMAIN package_list) \ listing

\* new_packages after the loop
NewPackages(package_list, listing) == listing \ (DOMAIN package_list)

\* package_list after the loop and after the pops of old_packages
MergePackages(package_list, listing) ==
    [p \in ((DOMAIN package_list) \cup NewPackages(package_list, listing))
              \ OldPackages(package_list, listing) |->
        IF p \in DOMAIN package_list THEN package_list[p] ELSE EmptyRecord]

\* if package_info_cache.exists(): package_info_cache.unlink(), for each of `gone`
UnlinkAll(files, gone) ==
    [files EXCEPT ![PACKAGE_INFO_CACHE] =
        [p \in Names |-> IF p \in gone THEN NoFile ELSE files[PACKAGE_INFO_CACHE][p]]]

\* The body of the index that lists `listing`: its anchors in document order.
Document(listing) ==
    LET Listed(name) == name \in listing IN SelectSeq(IndexOrder, Listed)

\* pathlib.Path(download_file.name).read_text(): download_file.write(chunk)
\* writes through the buffer of the NamedTemporaryFile and nothing flushes it
\* before the file is read back by its name, so the text read is the document
\* without its last `unflushed` anchors.
ReadText(document, unflushed) ==
    SubSeq(document, 1,
           IF unflushed < Len(document) THEN Len(document) - unflushed ELSE 0)

\* tree.xpath("//a/text()")
Anchors(text) == { text[i] : i \in 1..Len(text) }

\* A 200 answer whose body was downloaded: it carries PyPI's current listing,
\* whatever it is, and with hasEtag its ETag.  index_info["etag"] is set
\* before the state file is written (write_text(None) raises TypeError) and
\* before the HTML is parsed (html.fromstring raises on a document it cannot
\* parse).
IndexDownloaded ==
    /\ pc = "index"
    /\ lastResp' = [NoResp EXCEPT !.pkg = SimpleIndex, !.status = 200]
    /\ \E pypiIndex \in SUBSET Names, hasEtag \in BOOLEAN, parsed \in BOOLEAN,
          unflushed \in 0..MaxUnflushed :
          LET etag == IF hasEtag THEN IndexEtagOf(pypiIndex) ELSE NoEtag
              withEtag == [index_info EXCEPT !.etag = etag]
              packages == Anchors(ReadText(Document(pypiIndex), unflushed))
          IN  IF ~hasEtag
              THEN /\ index_info' = withEtag
                   /\ LeaveMain("exception")
                   /\ UNCHANGED << stateEtag, fs, remaining >>
              ELSE IF ~parsed
              THEN /\ index_info' = withEtag
                   /\ stateEtag' = [exists |-> TRUE, text |-> etag]
                   /\ LeaveMain("exception")
                   /\ UNCHANGED << fs, remaining >>
              ELSE /\ index_info' = [withEtag EXCEPT !.packages =
                                        MergePackages(index_info.packages, packages)]
                   /\ stateEtag' = [exists |-> TRUE, text |-> etag]
                   /\ fs' = UnlinkAll(fs, OldPackages(index_info.packages, packages))
                   /\ ReturnToMain(index_info'.packages)
                   /\ UNCHANGED abort
    /\ UNCHANGED << envVars, indexFile, stateHash, optVars, idxReq, task,
                    started, req >>

\* The request or the download of the body raises (a transport error, a 200
\* answer without Content-Length), or move_on_after cancels it: nothing was
\* assigned yet.
IndexAborted ==
    /\ pc = "index"
    /\ \E why \in { "exception", "timeout" } : LeaveMain(why)
    /\ lastResp' = NoResp
    /\ UNCHANGED << envVars, fileVars, fs, optVars, index_info, idxReq, taskVars >>

(***************************************************************************)
(* collect_packages_information: the loop of the nursery.                  *)
(***************************************************************************)
\* options.fast and (package in KNOWN_NOT_SALT_EXTENSIONS or not (package in
\* KNOWN_SALT_EXTENSIONS or package.startswith(PACKAGE_NAME_PREFIXES)))
FastSkip(package) ==
    fast /\ ( package \in KNOWN_NOT_SALT_EXTENSIONS
              \/ ~( package \in KNOWN_SALT_EXTENSIONS
                    \/ startswith(package, PACKAGE_NAME_PREFIXES) ) )

\* The packages the loop is done with once it has reached `package`.
LoopReached(package) == { package }

\* the loop's `continue`
LoopSkip ==
    /\ pc = "collect"
    /\ abort = "none"
    /\ \E package \in remaining :
          /\ FastSkip(package)
          /\ remaining' = remaining \ LoopReached(package)
    /\ lastResp' = NoResp
    /\ UNCHANGED << envVars, fileVars, fs, pc, optVars, index_info, borrowed,
                    idxReq, task, started, req, abort, counter >>

\* async with limiter: nursery.start_soon(download_package_info, ...).  The
\* token is acquired (a checkpoint, at which a cancelled loop ends) and given
\* back as soon as the task is scheduled.
LoopStartSoon ==
    /\ pc = "collect"
    /\ abort = "none"
    /\ borrowed < concurrency
    /\ \E package \in remaining :
          /\ ~FastSkip(package)
          /\ remaining' = remaining \ LoopReached(package)
          /\ task' = [task EXCEPT ![package] = "spawned"]
          /\ started' = [started EXCEPT ![package] = @ + 1]
    /\ borrowed' = (borrowed + 1) - 1
    /\ lastResp' = NoResp
    /\ UNCHANGED << envVars, fileVars, fs, pc, optVars, index_info, idxReq,
                    req, abort, counter >>

\* trio.move_on_after(timeout) reaches its deadline while the nursery is open.
MoveOnAfter ==
    /\ pc = "collect"
    /\ abort = "none"
    /\ abort' = "timeout"
    /\ lastResp' = NoResp
    /\ UNCHANGED << envVars, fileVars, fs, pc, optVars, index_info, borrowed,
                    idxReq, taskVars, counter >>

(***************************************************************************)
(* download_package_info.                                                  *)
(***************************************************************************)
\* The classification of lines 291-308 reads data["info"]["keywords"] only
\* when the name decides nothing.
ReadsKeywords(package) ==
    /\ package \notin KNOWN_SALT_EXTENSIONS
    /\ package \notin KNOWN_NOT_SALT_EXTENSIONS
    /\ ~startswith(package, PACKAGE_NAME_PREFIXES)

salt_extension(package, data) ==
    IF package \in KNOWN_SALT_EXTENSIONS THEN TRUE
    ELSE IF package \notin KNOWN_NOT_SALT_EXTENSIONS
         THEN IF startswith(package, PACKAGE_NAME_PREFIXES) THEN TRUE
              ELSE data.keywords # << >> /\ Contains(data.keywords, "salt-extension")
         ELSE FALSE

\* (mutant) the test for 304 comes after the test for a status other than 200
CacheAfterNot200First(package, file, status, data) ==
    IF status # 200 THEN NoFile
    ELSE IF data.kind = "notjson" THEN file
    ELSE IF data.kind = "empty" THEN NoFile
    ELSE IF ReadsKeywords(package) /\ data.kind = "noinfo" THEN file
    ELSE IF salt_extension(package, data) THEN data
    ELSE NoFile

\* The cache file of `package` after the lines from 268 on have handled an
\* answer; `file` is the cache file before.
CacheAfter(package, file, status, data) ==
    IF status = 304 THEN file
    ELSE IF status # 200 THEN NoFile
    ELSE IF data.kind = "notjson" THEN file
    ELSE IF data.kind = "empty" THEN NoFile
    ELSE IF ReadsKeywords(package) /\ data.kind = "noinfo" THEN file
    ELSE IF salt_extension(package, data) THEN data
    ELSE NoFile

\* package_info after lines 267-274.
RecordAfter(package_info, status, etag) ==
    [etag |-> etag,
     notfound |-> package_info.notfound \/ (status = 404)]

\* headers["If-None-Match"] of lines 256-259
IfNoneMatch(package_info) == package_info.etag

\* The task runs from its start to the await of session.get: a package known
\* to throw 404 has its cache file removed and is not queried; in a cancelled
\* nursery the await raises Cancelled.
TaskStart ==
    /\ \E package \in Names :
          /\ task[package] = "spawned"
          /\ LET package_info == index_info.packages[package]
             IN  IF package_info.notfound
                 THEN /\ fs' = UnlinkAll(fs, { package })
                      /\ task' = [task EXCEPT ![package] = "done"]
                      /\ counter' = counter + 1
                      /\ UNCHANGED req
                 ELSE IF abort # "none"
                 THEN /\ task' = [task EXCEPT ![package] = "done"]
                      /\ counter' = counter + 1
                      /\ UNCHANGED << fs, req >>
                 ELSE /\ task' = [task EXCEPT ![package] = "waiting"]
                      /\ req' = [req EXCEPT ![package] = IfNoneMatch(package_info)]
                      /\ UNCHANGED << fs, counter >>
    /\ lastResp' = NoResp
    /\ UNCHANGED << envVars, fileVars, pc, optVars, index_info, borrowed,
                    idxReq, remaining, started, abort >>

\* (mutant) every task is handed the whole of index_info["packages"]
WrittenAll(package) == Names

\* The packages whose record and cache file the task of `package` writes.
Written(package) == { package }

\* session.get returns an answer: any status (304 only to a conditional
\* request), with or without an etag header, a body with a 200.  A body that
\* is not JSON makes req.json() raise out of the task, which cancels the nursery.
\* In a cancelled nursery the await raises Cancelled instead (TaskCancelled); an
\* answer that is handled although the nursery was cancelled in the same tick
\* leaves the state of the answer handled first and the nursery cancelled next.
TaskAnswered ==
    /\ abort = "none"
    /\ \E package \in Names, status \in Statuses, etag \in PackageEtags \cup { NoEtag } :
          /\ task[package] = "waiting"
          /\ status = 304 => req[package] # NoEtag
          /\ \E data \in IF status = 200 THEN Bodies ELSE { NoFile } :
                /\ index_info' = [index_info EXCEPT !.packages =
                      [p \in DOMAIN index_info.packages |->
                          IF p \in Written(package)
                          THEN RecordAfter(index_info.packages[p], status, etag)
                          ELSE index_info.packages[p]]]
                /\ fs' = [fs EXCEPT ![PACKAGE_INFO_CACHE] =
                      [p \in Names |->
                          IF p \in Written(package)
                          THEN CacheAfter(p, fs[PACKAGE_INFO_CACHE][p], status, data)
                          ELSE fs[PACKAGE_INFO_CACHE][p]]]
                /\ lastResp' = [pkg |-> package, status |-> status, body |-> data]
                /\ abort' = IF status = 200 /\ data.kind = "notjson"
                            THEN "exception" ELSE abort
          /\ task' = [task EXCEPT ![package] = "done"]
          /\ req' = [req EXCEPT ![package] = NoEtag]
    /\ counter' = counter + 1
    /\ UNCHANGED << envVars, fileVars, pc, optVars, borrowed, idxReq, remaining,
                    started >>

\* session.get raises: httpx.TimeoutException and trio.ClosedResourceError are
\* caught (handled), any other error leaves the task and cancels the nursery.
TaskRequestRaises ==
    /\ abort = "none"
    /\ \E package \in Names, handled \in BOOLEAN :
          /\ task[package] = "waiting"
          /\ lastResp' = [NoResp EXCEPT !.pkg = package]
          /\ task' = [task EXCEPT ![package] = "done"]
          /\ req' = [req EXCEPT ![package] = NoEtag]
          /\ abort' = IF handled THEN abort ELSE "exception"
    /\ counter' = counter + 1
    /\ UNCHANGED << envVars, fileVars, fs, pc, optVars, index_info, borrowed,
                    idxReq, remaining, started >>

\* The nursery is cancelled (by the timeout or by a task that raised): the
\* await of session.get raises Cancelled.
TaskCancelled ==
    /\ abort # "none"
    /\ \E package \in Names :
          /\ task[package] = "waiting"
          /\ task' = [task EXCEPT ![package] = "done"]
          /\ req' = [req EXCEPT ![package] = NoEtag]
    /\ counter' = counter + 1
    /\ lastResp' = NoResp
    /\ UNCHANGED << envVars, fileVars, fs, pc, optVars, index_info, borrowed,
                    idxReq, remaining, started, abort >>

(***************************************************************************)
(* The end of the nursery, the finally-block of                            *)
(* collect_packages_information, and the end of the run.                   *)
(***************************************************************************)
Running == { p \in Names : task[p] \in { "spawned", "waiting" } }

\* (mutant) the child tasks are not awaited
NurseryMayCloseEarly == remaining = {} \/ abort # "none"

\* async with trio.open_nursery(): the block is left when the loop is over (or
\* cancelled) and no child task is left.
NurseryMayClose == (remaining = {} \/ abort # "none") /\ Running = {}

\* extensions of lines 226-231
Extensions(files) ==
    { <<p, files[PACKAGE_INFO_CACHE][p]>> :
        p \in { q \in Names : files[PACKAGE_INFO_CACHE][q] # NoFile } }

\* PYTHONHASHSEED: hash() of a str is salted with a seed the interpreter draws
\* when it starts.
HashSeeds == { "h1", "h2" }

\* Lines 232-242: the xor of the hashes of the sorted entries is a value of
\* the set of entries and of the seed of the process; functools.reduce of an
\* empty list raises TypeError, which is caught, and the state file is not
\* written.
KnownExtensionsHash(old, files, seed) ==
    IF Extensions(files) = {} THEN old
    ELSE [exists |-> TRUE, value |-> << seed, Extensions(files) >>]

\* The nursery closes and the finally-block of collect_packages_information
\* writes the hash.
CollectEnd ==
    /\ pc = "collect"
    /\ NurseryMayClose
    /\ \E seed \in HashSeeds : stateHash' = KnownExtensionsHash(stateHash, fs, seed)
    /\ pc' = "save"
    /\ lastResp' = NoResp
    /\ UNCHANGED << envVars, indexFile, stateEtag, fs, optVars, index_info,
                    borrowed, idxReq, taskVars, abort, counter >>

\* main's return value; an exception leaves main through trio.run.
ReturnCode(why) ==
    IF why = "timeout" THEN "1" ELSE IF why = "exception" THEN "raised" ELSE "0"

\* index_info as the finally-block of get_index_info writes it
SavedIndexInfo(info, sha, ok) ==
    IF ok THEN [info EXCEPT !.sha256sum = sha] ELSE info

\* The finally-block of get_index_info, which runs the sha256sum command
\* again, and main's return.  When get_sha256_command finds no command, its
\* exception leaves the finally-block before write_bytes and then main.
GetIndexInfoSave ==
    /\ pc = "save"
    /\ \E found \in BOOLEAN :
          IF get_sha256_command(found)
          THEN /\ \E sha \in ScriptHashes, ok \in BOOLEAN :
                     indexFile' = [exists |-> TRUE,
                                   info |-> SavedIndexInfo(index_info, sha, ok)]
               /\ result' = ReturnCode(abort)
          ELSE /\ indexFile' = indexFile
               /\ result' = "raised"
    /\ runs' = runs + 1
    /\ pc' = "idle"
    /\ index_info' = EmptyIndexInfo
    /\ invalidated' = FALSE
    /\ fast' = FALSE
    /\ idxReq' = NoEtag
    /\ remaining' = {}
    /\ task' = NoTasks
    /\ started' = NoStarts
    /\ req' = NoRequests
    /\ abort' = "none"
    /\ counter' = 0
    /\ lastResp' = NoResp
    /\ UNCHANGED << envVars, fs, stateEtag, stateHash, borrowed >>

(***************************************************************************)
(* refresh-metadata.py                                                     *)
(***************************************************************************)
\* iterate_pypi_cache: the packages of its PACKAGE_INFO_CACHE that have a
\* release with a file that is not yanked.
iterate_pypi_cache(files) ==
    { p \in Names : /\ files[REFRESH_PACKAGE_INFO_CACHE][p].kind = "info"
                    /\ files[REFRESH_PACKAGE_INFO_CACHE][p].releases > 0 }

RefreshMetadata ==
    /\ pc = "idle"
    /\ yielded' = iterate_pypi_cache(fs)
    /\ UNCHANGED << KNOWN_SALT_EXTENSIONS, KNOWN_NOT_SALT_EXTENSIONS,
                    fileVars, fs, pc, optVars, index_info, borrowed, idxReq,
                    taskVars, abort, counter, lastResp >>

(***************************************************************************)
(* The specification.                                                      *)
(***************************************************************************)
Next ==
    \/ GetIndexInfoLoad
    \/ IndexRequest
    \/ IndexNotModified
    \/ IndexFailed
    \/ IndexDownloaded
    \/ IndexAborted
    \/ LoopSkip
    \/ LoopStartSoon
    \/ MoveOnAfter
    \/ TaskStart
    \/ TaskAnswered
    \/ TaskRequestRaises
    \/ TaskCancelled
    \/ CollectEnd
    \/ GetIndexInfoSave
    \/ RefreshMetadata

Spec == Init /\ [][Next]_vars

(***************************************************************************)
(* The claims.                                                             *)
(***************************************************************************)
Cache == fs[PACKAGE_INFO_CACHE]
Cached(p) == Cache[p] # NoFile
Known == DOMAIN index_info.packages
Saved == indexFile.info.packages

\* C1: the download_package_info tasks that were started and have not
\* finished are never more than the capacity of the limiter.
C1_TasksWithinCapacity == Cardinality(Running) <= concurrency

\* C2: when download_pypi_simple_index has handled a 200 answer and returns,
\* the keys of index_info["packages"] are the names the downloaded index lists
\* (the listing that the ETag of the answer identifies); a name
\* that was not known has an empty record, a name that was known and is listed
\* keeps its record, and a name that was known and is not listed any more has
\* lost its record and its cache file.
C2_IndexDiffApplied ==
    [][ ( /\ lastResp'.pkg = SimpleIndex
          /\ lastResp'.status = 200
          /\ pc' = "collect" )
        => LET listing == index_info'.etag[1]
               old == index_info.packages
               new == index_info'.packages
           IN  /\ DOMAIN new = listing
               /\ \A p \in listing :
                     new[p] = IF p \in DOMAIN old THEN old[p] ELSE EmptyRecord
               /\ \A p \in (DOMAIN old) \ listing :
                     /\ p \notin DOMAIN new
                     /\ ~Cached(p)' ]_vars

\* The classification the claim C3 states.
C3_Classified(p, data) ==
    \/ p \in KNOWN_SALT_EXTENSIONS
    \/ /\ p \notin KNOWN_NOT_SALT_EXTENSIONS
       /\ \/ p[1] \in { "salt-ext-", "saltext-", "saltext." }
          \/ Contains(data.keywords, "salt-extension")

\* C3: after download_package_info has handled a 200 answer with non-empty
\* JSON, the cache file of the package exists, and then holds that JSON, if and
\* only if the package is in the include list, or is not in the exclude list
\* and has a known prefix or "salt-extension" in its keywords.
C3_OnlySaltExtensionsCached ==
    ( /\ lastResp.pkg \in Names
      /\ lastResp.status = 200
      /\ lastResp.body.kind \in { "noinfo", "info" } )
    => /\ Cached(lastResp.pkg) <=> C3_Classified(lastResp.pkg, lastResp.body)
       /\ Cached(lastResp.pkg) => Cache[lastResp.pkg] = lastResp.body

\* C4: between runs, after a run that ended normally, a package that its name
\* makes a Salt extension and whose saved record holds an etag (and no
\* not-found mark, so that its next lookup is conditional) has its cache file.
C4_EtagImpliesCached ==
    (pc = "idle" /\ result = "0")
    => \A p \in DOMAIN Saved :
          ( /\ Saved[p].etag # NoEtag
            /\ ~Saved[p].notfound
            /\ \/ p \in KNOWN_SALT_EXTENSIONS
               \/ /\ p \notin KNOWN_NOT_SALT_EXTENSIONS
                  /\ startswith(p, PACKAGE_NAME_PREFIXES) )
          => Cached(p)

\* C5: a lookup is started only after download_pypi_simple_index has returned
\* to main, and the index cache is written only when no started lookup is left
\* unfinished.
C5_LinearPipeline ==
    [][ /\ (\E p \in Names : started'[p] > started[p]) => (pc = "collect" /\ borrowed = 0)
        /\ Running' # {} => pc' = "collect"
        /\ (pc = "save" /\ pc' = "idle") => Running = {} ]_vars

\* C5, witness: the index cache is about to be written after the lookups of
\* both packages have finished.
C5_Witness ==
    /\ pc = "save"
    /\ \A p \in Names : started[p] = 1 /\ task[p] = "done"

\* C6: at most one task is started for a package in a run, and a step of the
\* task of a package writes no record and no cache file but its own, nor the
\* key set, the index etag or any other file; what the tasks share is the
\* progress counter (and the cancellation of their nursery).
C6_TaskStep(p) == task[p] \in { "spawned", "waiting" } /\ task'[p] # task[p]
C6_NoCompetingWriters ==
    [][ /\ \A p \in Names : started'[p] <= 1
        /\ \A p \in Names :
              C6_TaskStep(p)
              => /\ DOMAIN index_info'.packages = Known
                 /\ index_info'.etag = index_info.etag
                 /\ index_info'.sha256sum = index_info.sha256sum
                 /\ UNCHANGED << indexFile, stateEtag, stateHash >>
                 /\ \A q \in Names \ { p } :
                       /\ q \in Known => index_info'.packages[q] = index_info.packages[q]
                       /\ Cache'[q] = Cache[q]
                       /\ task'[q] = task[q]
                       /\ req'[q] = req[q] ]_vars

\* C6, witness: the task of one package has handled its answer, which changed
\* its record, while the task of another package is waiting for its answer.
C6_Witness ==
    \E p \in Names, q \in Names :
       /\ p # q
       /\ lastResp.pkg = p
       /\ lastResp.status = 200
       /\ index_info.packages[p].etag # NoEtag
       /\ Cached(p)
       /\ task[q] = "waiting"

\* C7: every package that query-pypi.py has cached and that has a release with
\* a file that is not yanked is yielded by iterate_pypi_cache.
C7_RefreshReadsTheCache ==
    \A p \in Names :
       (Cache[p].kind = "info" /\ Cache[p].releases > 0) => p \in iterate_pypi_cache(fs)

\* C8: when get_index_info loads an index cache and the sha256 of the script
\* is not the stored one (or cannot be computed), no record holds an etag after
\* the load and every lookup sent in that run is unconditional, while the index
\* etag, the known packages and the not-found marks are as stored; when the
\* sha256 matches, the records are as stored.
C8_ScriptChangeInvalidates ==
    [][ /\ (pc = "idle" /\ pc' = "loaded" /\ indexFile.exists)
           => /\ index_info'.etag = indexFile.info.etag
              /\ DOMAIN index_info'.packages = DOMAIN Saved
              /\ \A p \in DOMAIN Saved :
                    /\ index_info'.packages[p].notfound = Saved[p].notfound
                    /\ index_info'.packages[p].etag =
                          IF invalidated' THEN NoEtag ELSE Saved[p].etag
        /\ invalidated'
           => \A p \in Names : task'[p] = "waiting" => req'[p] = NoEtag ]_vars

\* C8, witness: in a run that invalidated the etags, a lookup is in flight for
\* a package whose stored record holds an etag.
C8_Witness ==
    /\ invalidated
    /\ \E p \in Names :
          /\ task[p] = "waiting"
          /\ p \in DOMAIN Saved
          /\ Saved[p].etag # NoEtag

\* C9: the index request carries the stored index etag, and when it is answered
\* 304 or with a status other than 200, the index etag, the records, the
\* pypi-index-etag file and the cache files are unchanged and the lookups go on
\* over the known packages.
C9_UnchangedIndexChangesNothing ==
    [][ /\ pc' = "index" => idxReq' = index_info'.etag
        /\ ( /\ lastResp'.pkg = SimpleIndex
             /\ lastResp'.status # 200 )
           => /\ lastResp'.status = 304 => idxReq # NoEtag
              /\ index_info' = index_info
              /\ index_info.etag = indexFile.info.etag
              /\ stateEtag' = stateEtag
              /\ fs' = fs
              /\ pc' = "collect"
              /\ remaining' = Known ]_vars

\* C9, witness: the index was answered 304 and the lookups are about to start
\* over the packages known before, one of them cached.
C9_Witness ==
    /\ lastResp.pkg = SimpleIndex
    /\ lastResp.status = 304
    /\ pc = "collect"
    /\ remaining = Names
    /\ \E p \in Names : Cached(p)

\* C10: the index etag that is saved is the etag of a listing whose names are
\* all keys of the saved index_info["packages"], and it has no other keys.
C10_EtagNotAheadOfPackages ==
    (indexFile.exists /\ indexFile.info.etag # NoEtag)
    => DOMAIN Saved = indexFile.info.etag[1]

\* The record of p holds the not-found mark.
C11_Marked(info, p) == p \in DOMAIN info.packages /\ info.packages[p].notfound

\* C11: a lookup answered 404 marks the record not-found and removes the cache
\* file; from then on no request is sent for the package, its task removes
\* the cache file, the package is not cached, and the mark stays: through the
\* load of the index cache, in the index cache that a run writes, and through
\* every step of a run but the download of an index that does not list the
\* package any more.
C11_NotFoundIsPermanent ==
    [][ \A p \in Names :
          /\ (lastResp'.pkg = p /\ lastResp'.status = 404)
             => (C11_Marked(index_info', p) /\ ~Cached(p)')
          /\ (pc = "idle" /\ pc' = "loaded" /\ C11_Marked(indexFile.info, p))
             => C11_Marked(index_info', p)
          /\ C11_Marked(index_info, p)
             => /\ task'[p] # "waiting"
                /\ ~Cached(p)'
                /\ (pc' = "idle" /\ indexFile' # indexFile)
                   => C11_Marked(indexFile'.info, p)
                /\ pc' # "idle"
                   => \/ C11_Marked(index_info', p)
                      \/ /\ lastResp'.pkg = SimpleIndex
                         /\ lastResp'.status = 200
                         /\ p \notin index_info'.etag[1] ]_vars

\* C12: a run ends only by the save of get_index_info: pypi-index.msgpack then
\* holds the index etag and the records of index_info as they are at that
\* moment, with the sha256sum either as it was or a sum just computed, and
\* main returns 1 exactly when the timeout fired and 0 when the pipeline
\* completed.
C12_RunEndsBySaving ==
    [][ (pc # "idle" /\ pc' = "idle")
        => /\ indexFile'.exists
           /\ indexFile'.info.etag = index_info.etag
           /\ indexFile'.info.packages = index_info.packages
           /\ indexFile'.info.sha256sum \in ScriptHashes \cup { index_info.sha256sum }
           /\ (result' = "1") <=> (abort = "timeout")
           /\ (abort = "none") => (result' = "0") ]_vars

\* C13: a lookup answered 304 leaves the cache file of the package and its
\* not-found mark as they were; a request that raised leaves the cache file,
\* the mark and the etag as they were; an answer with a status other than 200
\* and 304 leaves the package without cache file.
C13_NotModifiedKeepsCache ==
    [][ \A p \in Names :
          lastResp'.pkg = p
          => /\ lastResp'.status = 304
                => /\ Cache'[p] = Cache[p]
                   /\ index_info'.packages[p].notfound = index_info.packages[p].notfound
             /\ lastResp'.status = 0
                => /\ Cache'[p] = Cache[p]
                   /\ index_info'.packages[p] = index_info.packages[p]
             /\ lastResp'.status \notin { 0, 200, 304 }
                => ~Cached(p)' ]_vars

\* C13, witness: a lookup of a cached package was answered 304 and the cache
\* file is still there.
C13_Witness ==
    \E p \in Names :
       /\ lastResp.pkg = p
       /\ lastResp.status = 304
       /\ Cached(p)

\* What download_package_info decides for p from its name alone: its
\* classification of data without keywords.
C14_ByName(p) == salt_extension(p, Body("info", << >>, 0))

\* C14: with --fast, the loop of collect_packages_information starts a lookup
\* for a package exactly when download_package_info classifies the package as
\* a Salt extension from its name alone, and a package it skips keeps its
\* record and its cache file.
C14_FastAgreesWithClassification ==
    [][ (fast /\ pc = "collect" /\ pc' = "collect")
        => \A p \in remaining \ remaining' :
              /\ (task'[p] = "spawned") <=> C14_ByName(p)
              /\ task'[p] # "spawned"
                 => /\ index_info'.packages[p] = index_info.packages[p]
                    /\ Cache'[p] = Cache[p] ]_vars

\* C15: whenever collect_packages_information ends in a run that found a
\* known-extensions-hash file, the file then holds the value computed from
\* exactly the cache files present at that moment, also when none is present.
C15_HashTracksCache ==
    [][ (pc = "collect" /\ pc' = "save" /\ stateHash.exists)
        => /\ stateHash'.exists
           /\ \E seed \in HashSeeds :
                 stateHash'.value = << seed, Extensions(fs') >> ]_vars

====
